---- MODULE Spec2Model ----
(***************************************************************************)
(* A model of calculator.py: the whitelist tables, _safe_eval, evaluate    *)
(* and the REPL loop.                                                      *)
(*                                                                         *)
(* Expression trees are the ast nodes that ast.parse produces, as records  *)
(* with a "kind" field.  Python values are records with a "t" field:       *)
(*   int and float  [t, num, den]  the exact rational num/den (den > 0,    *)
(*                                 lowest terms); float rounding is not    *)
(*                                 modelled                                *)
(*   tuple          [t, elts]                                              *)
(*   callable       [t, name]      a whitelisted function object           *)
(*   mathfloat      [t, fn, args]  the float a math-module function        *)
(*                                 returns, left uninterpreted             *)
(*   complex        [t, fn, args]  a complex power, left uninterpreted     *)
(* An exception is a result with ok = FALSE carrying the exception class   *)
(* (exc) and its message (msg).                                            *)
(***************************************************************************)
EXTENDS Integers, Sequences, FiniteSets, TLC

\* Bounds of the model.
MaxLit == 2
MaxArgs == 2
MaxLines == 3

VARIABLES
    allowedBinops,    \* _ALLOWED_BINOPS
    allowedUnaryops,  \* _ALLOWED_UNARYOPS
    allowedNames,     \* _ALLOWED_NAMES
    mode,             \* "cli" (one-shot evaluate) or "repl"
    pc,               \* position of the running process
    expr,             \* what ast.parse made of the text handed to evaluate
    outcome,          \* result of the last evaluate call
    history,          \* repl: the history list
    inputs,           \* repl: the lines input() has returned, in order
    results           \* repl: the evaluate calls made, text and outcome, in order

vars == <<allowedBinops, allowedUnaryops, allowedNames, mode, pc, expr,
          outcome, history, inputs, results>>

tables == <<allowedBinops, allowedUnaryops, allowedNames>>

----------------------------------------------------------------------------
\* Python values

None == [t |-> "none"]
IntVal(n) == [t |-> "int", num |-> n, den |-> 1]
Func(name) == [t |-> "func", name |-> name]
TupleVal(elts) == [t |-> "tuple", elts |-> elts]
MathFloat(fn, args) == [t |-> "mathfloat", fn |-> fn, args |-> args]
Complex(fn, args) == [t |-> "complex", fn |-> fn, args |-> args]

Abs(n) == IF n < 0 THEN -n ELSE n

RECURSIVE Gcd(_, _)
Gcd(a, b) == IF b = 0 THEN a ELSE Gcd(b, a % b)

\* the float with value n/d, d # 0
FloatVal(n, d) ==
    LET g == Gcd(Abs(n), Abs(d))
        s == IF d < 0 THEN -1 ELSE 1
    IN [t |-> "float", num |-> (s * n) \div g, den |-> (s * d) \div g]

\* math.inf and math.nan: floats that are no rational
Inf == [t |-> "float", num |-> 1, den |-> 0]
NaN == [t |-> "float", num |-> 0, den |-> 0]

\* an int or a finite float
IsNumber(v) == v.t \in {"int", "float"} /\ v.den # 0
IsZero(v) == v.num = 0
\* floor of the rational num/den
Floor(v) == v.num \div v.den
\* int when both operands are int, float otherwise
Typed(l, r, n, d) ==
    IF l.t = "int" /\ r.t = "int" /\ d = 1 THEN IntVal(n) ELSE FloatVal(n, d)

\* Results of an evaluation step: a value or a raised exception, with the
\* events (nodes entered, functions invoked) that led to it.
Ok(v, log) == [ok |-> TRUE, val |-> v, exc |-> "", msg |-> "", log |-> log]
Raise(exc, msg, log) ==
    [ok |-> FALSE, val |-> None, exc |-> exc, msg |-> msg, log |-> log]
Prefix(log, r) == [r EXCEPT !.log = log \o r.log]

EvalEvent(node) == [ev |-> "eval", what |-> node.kind]
InvokeEvent(name) == [ev |-> "invoke", what |-> name]

----------------------------------------------------------------------------
\* The operator module functions the tables hold, on Python values.
\* l = a/b and r = c/d below.  Arithmetic on an uninterpreted mathfloat or
\* on inf/nan is not defined here; the bounded inputs never combine them.

ZeroDiv == Raise("ZeroDivisionError", "division by zero", <<>>)
BadOperand == Raise("TypeError", "unsupported operand type", <<>>)

RECURSIVE IPow(_, _)
IPow(b, n) == IF n = 0 THEN 1 ELSE b * IPow(b, n - 1)

RECURSIVE Repeat(_, _)
Repeat(s, n) == IF n <= 0 THEN <<>> ELSE s \o Repeat(s, n - 1)

\* floor of (l / r), r # 0
FloorQuot(l, r) ==
    LET n == l.num * r.den
        m == l.den * r.num
    IN IF m < 0 THEN (-n) \div (-m) ELSE n \div m

NumAdd(l, r) ==
    Ok(Typed(l, r, l.num * r.den + r.num * l.den, l.den * r.den), <<>>)
NumSub(l, r) ==
    Ok(Typed(l, r, l.num * r.den - r.num * l.den, l.den * r.den), <<>>)
NumMul(l, r) == Ok(Typed(l, r, l.num * r.num, l.den * r.den), <<>>)
NumTrueDiv(l, r) ==
    IF IsZero(r) THEN ZeroDiv
    ELSE Ok(FloatVal(l.num * r.den, l.den * r.num), <<>>)
NumFloorDiv(l, r) ==
    IF IsZero(r) THEN ZeroDiv ELSE Ok(Typed(l, r, FloorQuot(l, r), 1), <<>>)
NumMod(l, r) ==
    IF IsZero(r) THEN ZeroDiv
    ELSE Ok(Typed(l, r, l.num * r.den - r.num * FloorQuot(l, r) * l.den,
                  l.den * r.den), <<>>)
\* a fractional power is an irrational float, or a complex number when the
\* base is negative; both are left uninterpreted
NumPow(l, r) ==
    IF IsZero(l) /\ r.num < 0 THEN ZeroDiv
    ELSE IF r.den # 1 /\ l.num < 0 THEN Ok(Complex("pow", <<l, r>>), <<>>)
    ELSE IF r.den # 1 THEN Ok(MathFloat("pow", <<l, r>>), <<>>)
    ELSE IF r.num >= 0
         THEN Ok(Typed(l, r, IPow(l.num, r.num), IPow(l.den, r.num)), <<>>)
    ELSE Ok(FloatVal(IPow(l.den, -r.num), IPow(l.num, -r.num)), <<>>)

\* operator.add, sub, mul, truediv, floordiv, mod, pow
ApplyBinOp(fn, l, r) ==
    IF IsNumber(l) /\ IsNumber(r) THEN
        CASE fn = "add" -> NumAdd(l, r)
          [] fn = "sub" -> NumSub(l, r)
          [] fn = "mul" -> NumMul(l, r)
          [] fn = "truediv" -> NumTrueDiv(l, r)
          [] fn = "floordiv" -> NumFloorDiv(l, r)
          [] fn = "mod" -> NumMod(l, r)
          [] fn = "pow" -> NumPow(l, r)
    ELSE IF fn = "add" /\ l.t = "tuple" /\ r.t = "tuple"
         THEN Ok(TupleVal(l.elts \o r.elts), <<>>)
    ELSE IF fn = "mul" /\ l.t = "tuple" /\ r.t = "int"
         THEN Ok(TupleVal(Repeat(l.elts, r.num)), <<>>)
    ELSE IF fn = "mul" /\ l.t = "int" /\ r.t = "tuple"
         THEN Ok(TupleVal(Repeat(r.elts, l.num)), <<>>)
    ELSE IF l.t \in {"tuple", "func"} \/ r.t \in {"tuple", "func"}
         THEN BadOperand
    ELSE Raise("Unmodelled", "arithmetic on an uninterpreted float", <<>>)

\* operator.pos, operator.neg
ApplyUnaryOp(fn, v) ==
    IF v.t \in {"tuple", "func"} THEN BadOperand
    ELSE IF ~IsNumber(v)
         THEN Raise("Unmodelled", "arithmetic on an uninterpreted float", <<>>)
    ELSE IF fn = "pos" THEN Ok(v, <<>>)
    ELSE Ok([v EXCEPT !.num = -v.num], <<>>)

----------------------------------------------------------------------------
\* The whitelist tables as built at import time.

BinopsTable ==
    [op \in {"Add", "Sub", "Mult", "Div", "FloorDiv", "Mod", "Pow"} |->
        CASE op = "Add" -> "add"
          [] op = "Sub" -> "sub"
          [] op = "Mult" -> "mul"
          [] op = "Div" -> "truediv"
          [] op = "FloorDiv" -> "floordiv"
          [] op = "Mod" -> "mod"
          [] op = "Pow" -> "pow"]

UnaryopsTable ==
    [op \in {"UAdd", "USub"} |-> IF op = "UAdd" THEN "pos" ELSE "neg"]

MathFunctions ==
    {"sin", "cos", "tan", "asin", "acos", "atan", "atan2", "sinh", "cosh",
     "tanh", "degrees", "radians", "sqrt", "log", "log10", "exp", "pow",
     "hypot", "factorial"}
MathConstants == {"pi", "e", "tau", "inf", "nan"}

\* the value of a math-module constant; pi, e and tau to two decimals
MathConstant(k) ==
    CASE k = "pi" -> FloatVal(314, 100)
      [] k = "e" -> FloatVal(272, 100)
      [] k = "tau" -> FloatVal(628, 100)
      [] k = "inf" -> Inf
      [] k = "nan" -> NaN

NamesTable ==
    [k \in MathFunctions \cup MathConstants \cup {"abs", "round"} |->
        IF k \in MathConstants THEN MathConstant(k) ELSE Func(k)]

\* dict.get(key): None when the key is absent
Get(table, key) == IF key \in DOMAIN table THEN table[key] ELSE None

\* callable(obj)
Callable(v) == v.t = "func"

----------------------------------------------------------------------------
\* The whitelisted functions themselves (math module, abs, round), as far
\* as a call can tell them apart: the argument counts each accepts, the
\* argument types it rejects, its domain faults, and exact results for abs
\* and round.  Other results are uninterpreted floats.

AcceptsCount(fn, n) ==
    CASE fn \in {"atan2", "pow"} -> n = 2
      [] fn \in {"log", "round"} -> n \in {1, 2}
      [] fn = "hypot" -> TRUE
      [] OTHER -> n = 1

\* round(x) for a float or int x: nearest integer, ties to even
RoundHalfEven(x) ==
    LET f == Floor(x)
        twice == 2 * x.num - 2 * f * x.den
    IN IF twice < x.den THEN f
       ELSE IF twice > x.den THEN f + 1
       ELSE IF f % 2 = 0 THEN f ELSE f + 1

DomainFault(fn, args) ==
    \/ fn = "sqrt" /\ args[1].num < 0
    \/ fn \in {"log", "log10"} /\ \E i \in 1..Len(args) : args[i].num <= 0
    \/ fn \in {"asin", "acos"} /\ Abs(args[1].num) > args[1].den
    \/ fn = "pow" /\ args[1].num = 0 /\ args[2].num < 0

\* func(*args) for a whitelisted callable other than factorial
Invoke(fn, args) ==
    LET log == <<InvokeEvent(fn)>> IN
    IF ~AcceptsCount(fn, Len(args))
    THEN Raise("TypeError", "wrong number of arguments", log)
    ELSE IF \E i \in 1..Len(args) : args[i].t \in {"tuple", "func"}
    THEN Raise("TypeError", "bad argument type", log)
    ELSE IF \E i \in 1..Len(args) : ~IsNumber(args[i])
    THEN Raise("Unmodelled", "function of an uninterpreted float", log)
    ELSE IF fn = "abs"
    THEN Ok([args[1] EXCEPT !.num = Abs(args[1].num)], log)
    ELSE IF fn = "round" /\ Len(args) = 1
    THEN Ok(IntVal(RoundHalfEven(args[1])), log)
    ELSE IF fn = "round" /\ args[2].t # "int"
    THEN Raise("TypeError", "bad argument type", log)
    ELSE IF fn = "round" /\ args[1].t = "int" /\ args[2].num >= 0
    THEN Ok(args[1], log)
    ELSE IF DomainFault(fn, args)
    THEN Raise("ValueError", "math domain error", log)
    ELSE Ok(MathFloat(fn, args), log)

RECURSIVE Fact(_)
Fact(n) == IF n <= 1 THEN 1 ELSE n * Fact(n - 1)

----------------------------------------------------------------------------
\* ast nodes

Expression(body) == [kind |-> "Expression", body |-> body]
Constant(value) == [kind |-> "Constant", value |-> value]
Name(id) == [kind |-> "Name", id |-> id]
BinOp(op, left, right) ==
    [kind |-> "BinOp", op |-> op, left |-> left, right |-> right]
UnaryOp(op, operand) == [kind |-> "UnaryOp", op |-> op, operand |-> operand]
\* keywords holds the value node of each keyword argument
Call(func, args, keywords) ==
    [kind |-> "Call", func |-> func, args |-> args, keywords |-> keywords]
Tuple(elts) == [kind |-> "Tuple", elts |-> elts]
Attribute(value) == [kind |-> "Attribute", value |-> value]
Subscript(value, slice) ==
    [kind |-> "Subscript", value |-> value, slice |-> slice]
\* a node type _safe_eval has no branch for
List(elts) == [kind |-> "List", elts |-> elts]

StrValue == [t |-> "str"]
BytesValue == [t |-> "bytes"]

----------------------------------------------------------------------------
\* _safe_eval

RECURSIVE SafeEval(_), EvalSeq(_)

\* [_safe_eval(x) for x in nodes]: left to right, stopping at the first
\* exception; the values come back as a tuple value
EvalSeq(nodes) ==
    IF nodes = <<>> THEN Ok(TupleVal(<<>>), <<>>)
    ELSE LET h == SafeEval(Head(nodes)) IN
         IF ~h.ok THEN h
         ELSE LET rest == EvalSeq(Tail(nodes)) IN
              IF ~rest.ok THEN Prefix(h.log, rest)
              ELSE Ok(TupleVal(<<h.val>> \o rest.val.elts), h.log \o rest.log)

EvalConstant(node) ==
    IF node.value.t \in {"int", "float"} THEN Ok(node.value, <<>>)
    ELSE Raise("ValueError", "Constants of this type are not allowed", <<>>)

\* a variant of EvalBinOp that evaluates the operands before it looks the
\* operator up
EvalBinOpOperandsFirst(node) ==
    LET left == SafeEval(node.left) IN
    IF ~left.ok THEN left
    ELSE LET right == SafeEval(node.right) IN
         IF ~right.ok THEN Prefix(left.log, right)
         ELSE IF node.op \notin DOMAIN allowedBinops
         THEN Raise("ValueError", "Binary operator is not allowed",
                    left.log \o right.log)
         ELSE Prefix(left.log \o right.log,
                     ApplyBinOp(allowedBinops[node.op], left.val, right.val))

EvalBinOp(node) ==
    IF node.op \notin DOMAIN allowedBinops
    THEN Raise("ValueError", "Binary operator is not allowed", <<>>)
    ELSE LET left == SafeEval(node.left) IN
         IF ~left.ok THEN left
         ELSE LET right == SafeEval(node.right) IN
              IF ~right.ok THEN Prefix(left.log, right)
              ELSE Prefix(left.log \o right.log,
                          ApplyBinOp(allowedBinops[node.op], left.val, right.val))

EvalUnaryOp(node) ==
    IF node.op \notin DOMAIN allowedUnaryops
    THEN Raise("ValueError", "Unary operator is not allowed", <<>>)
    ELSE LET operand == SafeEval(node.operand) IN
         IF ~operand.ok THEN operand
         ELSE Prefix(operand.log,
                     ApplyUnaryOp(allowedUnaryops[node.op], operand.val))

\* the factorial branch of a call, args being the evaluated arguments
FactorialCall(args) ==
    IF Len(args) # 1
    THEN Raise("ValueError", "factorial() requires a single non-negative integer", <<>>)
    ELSE IF args[1].t \in {"tuple", "func"}
    THEN Raise("TypeError", "float() argument must be a real number", <<>>)
    ELSE IF args[1].t = "mathfloat"
    THEN Raise("Unmodelled", "factorial of an uninterpreted float", <<>>)
    ELSE IF args[1].den # 1 \/ args[1].num < 0
    THEN Raise("ValueError", "factorial() requires a single non-negative integer", <<>>)
    ELSE Ok(IntVal(Fact(args[1].num)), <<InvokeEvent("factorial")>>)

EvalCall(node) ==
    IF node.func.kind # "Name"
    THEN Raise("ValueError", "Only direct function calls are allowed", <<>>)
    ELSE LET func_name == node.func.id
             func == Get(allowedNames, func_name)
         IN IF func = None \/ ~Callable(func)
            THEN Raise("ValueError", "Function is not allowed", <<>>)
            ELSE LET args == EvalSeq(node.args) IN
                 IF ~args.ok THEN args
                 ELSE IF node.keywords # <<>>
                 THEN Raise("ValueError", "Keyword arguments are not supported",
                            args.log)
                 ELSE IF func_name = "factorial"
                 THEN Prefix(args.log, FactorialCall(args.val.elts))
                 ELSE Prefix(args.log, Invoke(func.name, args.val.elts))

EvalName(node) ==
    LET val == Get(allowedNames, node.id) IN
    IF val = None THEN Raise("ValueError", "Name is not allowed", <<>>)
    ELSE Ok(val, <<>>)

\* every call logs the node it is entered with; the isinstance(node,
\* ast.Num) branch is not modelled: ast.Num is ast.Constant, handled first
SafeEval(node) ==
    Prefix(<<EvalEvent(node)>>,
        CASE node.kind = "Expression" -> SafeEval(node.body)
          [] node.kind = "Constant" -> EvalConstant(node)
          [] node.kind = "BinOp" -> EvalBinOp(node)
          [] node.kind = "UnaryOp" -> EvalUnaryOp(node)
          [] node.kind = "Call" -> EvalCall(node)
          [] node.kind = "Name" -> EvalName(node)
          [] node.kind = "Tuple" -> EvalSeq(node.elts)
          [] OTHER -> Raise("ValueError", "Unsupported expression", <<>>))

----------------------------------------------------------------------------
\* evaluate

\* ast.iter_child_nodes, the expression children in field order
Children(node) ==
    CASE node.kind = "Expression" -> <<node.body>>
      [] node.kind = "BinOp" -> <<node.left, node.right>>
      [] node.kind = "UnaryOp" -> <<node.operand>>
      [] node.kind = "Call" -> <<node.func>> \o node.args \o node.keywords
      [] node.kind = "Attribute" -> <<node.value>>
      [] node.kind = "Subscript" -> <<node.value, node.slice>>
      [] node.kind \in {"Tuple", "List"} -> node.elts
      [] OTHER -> <<>>

RECURSIVE WalkQueue(_)
WalkQueue(todo) ==
    IF todo = <<>> THEN <<>>
    ELSE <<Head(todo)>> \o WalkQueue(Tail(todo) \o Children(Head(todo)))

\* a walk that yields the root and its direct child only
WalkShallow(tree) == <<tree>> \o Children(tree)

\* ast.walk(tree): breadth first, the root first
Walk(tree) == WalkQueue(<<tree>>)

\* isinstance(node, ast.Str): a Constant holding a str (interpreters up to
\* Python 3.13, which still provide ast.Str)
IsStr(node) == node.kind = "Constant" /\ node.value.t = "str"

\* the loop over ast.walk: the first offending node raises
RECURSIVE CheckNodes(_)
CheckNodes(nodes) ==
    IF nodes = <<>> THEN Ok(None, <<>>)
    ELSE IF Head(nodes).kind = "Attribute"
    THEN Raise("ValueError", "Attribute access is not allowed", <<>>)
    ELSE IF Head(nodes).kind = "Subscript"
    THEN Raise("ValueError", "Subscription is not allowed", <<>>)
    ELSE IF IsStr(Head(nodes))
    THEN Raise("ValueError", "String literals are not allowed", <<>>)
    ELSE CheckNodes(Tail(nodes))

\* the outcome of ast.parse(expr, mode='eval'): a tree or a SyntaxError
Parsed(tree) == [ok |-> TRUE, tree |-> tree]
SyntaxErr == [ok |-> FALSE, tree |-> Expression(List(<<>>))]

\* evaluate, from the outcome of ast.parse on
EvaluateParsed(parsed) ==
    IF ~parsed.ok THEN Raise("ValueError", "Syntax error", <<>>)
    ELSE LET check == CheckNodes(Walk(parsed.tree)) IN
         IF ~check.ok THEN check ELSE SafeEval(parsed.tree)

----------------------------------------------------------------------------
\* Bounded inputs: the parse results evaluate is run on.

SeqsUpTo(S, n) == UNION {[1..k -> S] : k \in 0..n}

One == Constant(IntVal(1))
Zero == Constant(IntVal(0))

Atoms ==
    {Constant(IntVal(n)) : n \in 0..MaxLit}
    \cup {Constant(FloatVal(5, 2)), Constant(FloatVal(2, 1))}
    \cup {Constant(StrValue), Constant(BytesValue)}
    \cup {Name(n) : n \in {"pi", "sin", "foo"}}

Nested ==
    {UnaryOp("USub", One), Tuple(<<One, Constant(IntVal(2))>>),
     BinOp("Sub", One, One), BinOp("Div", One, Zero),
     Attribute(Name("foo")), Subscript(Name("foo"), Zero),
     Call(Name("abs"), <<One>>, <<>>),
     BinOp("Add", One, Constant(StrValue))}

Operands == Atoms \cup Nested

\* the elements of argument lists and tuples
Arguments ==
    {One, Constant(FloatVal(5, 2)), Constant(FloatVal(2, 1)),
     Constant(StrValue), Name("foo"), Name("sin"),
     UnaryOp("USub", One), Tuple(<<One, Constant(IntVal(2))>>),
     BinOp("Div", One, Zero), BinOp("Add", One, Constant(StrValue)),
     Call(Name("abs"), <<One>>, <<>>)}

Callees ==
    {Name(n) : n \in {"sin", "factorial", "foo", "pi"}}
    \cup {One, Attribute(Name("foo"))}

GenBinOps == {"Add", "Sub", "Mult", "Div", "FloorDiv", "Mod", "Pow", "BitAnd"}
GenUnaryOps == {"UAdd", "USub", "Invert"}

Trees ==
    Operands
    \cup {UnaryOp(op, x) : op \in GenUnaryOps, x \in Operands}
    \cup {BinOp(op, l, r) : op \in GenBinOps, l \in Operands, r \in Operands}
    \cup {Call(f, a, k) : f \in Callees, a \in SeqsUpTo(Arguments, MaxArgs),
                          k \in {<<>>, <<One>>}}
    \cup {Tuple(a) : a \in SeqsUpTo(Arguments, MaxArgs)}
    \cup {Attribute(x) : x \in Operands}
    \cup {Subscript(x, Zero) : x \in Operands}
    \cup {List(<<>>)}

ParseResults == {SyntaxErr} \cup {Parsed(Expression(t)) : t \in Trees}

NoOutcome == Raise("", "", <<>>)

----------------------------------------------------------------------------
\* One-shot mode: python3 calculator.py "<expression>"

Init ==
    /\ allowedBinops = BinopsTable
    /\ allowedUnaryops = UnaryopsTable
    /\ allowedNames = NamesTable
    /\ mode = "cli"
    /\ pc = "start"
    /\ expr \in ParseResults
    /\ outcome = NoOutcome
    /\ history = <<>>
    /\ inputs = <<>>
    /\ results = <<>>

\* print(evaluate(expr)), or print the error and sys.exit(1)
CliEvaluate ==
    /\ mode = "cli"
    /\ pc = "start"
    /\ outcome' = EvaluateParsed(expr)
    /\ pc' = IF outcome'.ok THEN "exit0" ELSE "exit1"
    /\ UNCHANGED <<tables, mode, expr, history, inputs, results>>

Next == CliEvaluate

Spec == Init /\ [][Next]_vars

\* the model's arithmetic covers every value the bounded inputs produce
Modelled == outcome.exc # "Unmodelled"

----------------------------------------------------------------------------
\* Text.  A str is the sequence of its characters.

UpperCase == <<"A", "B", "C", "D", "E", "F", "G", "H", "I", "J", "K", "L", "M", "N", "O", "P", "Q", "R", "S", "T", "U", "V", "W", "X", "Y", "Z">>
LowerCase == <<"a", "b", "c", "d", "e", "f", "g", "h", "i", "j", "k", "l", "m", "n", "o", "p", "q", "r", "s", "t", "u", "v", "w", "x", "y", "z">>

\* str.lower() that leaves every character as it is
LowerNoFold(text) == text

\* str.lower()
Lower(text) ==
    [i \in 1..Len(text) |->
        IF \E k \in 1..Len(UpperCase) : UpperCase[k] = text[i]
        THEN LowerCase[CHOOSE k \in 1..Len(UpperCase) : UpperCase[k] = text[i]]
        ELSE text[i]]

IsSpace(c) == c \in {" ", "\t"}

RECURSIVE LStrip(_)
LStrip(text) ==
    IF text # <<>> /\ IsSpace(Head(text)) THEN LStrip(Tail(text)) ELSE text

RECURSIVE RStrip(_)
RStrip(text) ==
    IF text # <<>> /\ IsSpace(text[Len(text)])
    THEN RStrip(SubSeq(text, 1, Len(text) - 1)) ELSE text

\* str.strip()
Strip(text) == RStrip(LStrip(text))

\* ast.parse(text, mode='eval') on the texts the bounded inputs hold; any
\* other text here is no expression
ParseTable ==
    <<"q">> :> Parsed(Expression(Name("q"))) @@
    <<"Q">> :> Parsed(Expression(Name("Q"))) @@
    <<"q", "u", "i", "t">> :> Parsed(Expression(Name("quit"))) @@
    <<"E", "X", "I", "T">> :> Parsed(Expression(Name("EXIT"))) @@
    <<"h", "e", "l", "p">> :> Parsed(Expression(Name("help"))) @@
    <<"H", "i", "s", "t", "o", "r", "y">> :> Parsed(Expression(Name("History"))) @@
    <<"1", "+", "2">> :> Parsed(Expression(BinOp("Add", One, Constant(IntVal(2))))) @@
    <<"1", "/", "0">> :> Parsed(Expression(BinOp("Div", One, Zero))) @@
    <<"s", "i", "n">> :> Parsed(Expression(Name("sin"))) @@
    <<"a", "n", "s">> :> Parsed(Expression(Name("ans")))

Parse(text) == IF text \in DOMAIN ParseTable THEN ParseTable[text] ELSE SyntaxErr

\* evaluate(expr: str)
Evaluate(text) == EvaluateParsed(Parse(text))

----------------------------------------------------------------------------
\* Interactive mode: repl()

\* the lines input() may return
Lines ==
    {<<>>,
     <<" ">>,
     <<"q">>,
     <<"Q">>,
     <<" ", "q", "u", "i", "t">>,
     <<"E", "X", "I", "T">>,
     <<"h", "e", "l", "p">>,
     <<"?">>,
     <<"H", "i", "s", "t", "o", "r", "y">>,
     <<"1", "+", "2">>,
     <<" ", "1", "+", "2", " ">>,
     <<"1", "/", "0">>,
     <<"s", "i", "n">>,
     <<"2", "+">>,
     <<"a", "n", "s">>}

QuitWords == {<<"q", "u", "i", "t">>, <<"q">>, <<"e", "x", "i", "t">>}
HelpWords == {<<"h", "e", "l", "p">>, <<"?">>}
HistoryWord == <<"h", "i", "s", "t", "o", "r", "y">>

InitRepl ==
    /\ allowedBinops = BinopsTable
    /\ allowedUnaryops = UnaryopsTable
    /\ allowedNames = NamesTable
    /\ mode = "repl"
    /\ pc = "prompt"
    /\ expr = SyntaxErr
    /\ outcome = NoOutcome
    /\ history = <<>>
    /\ inputs = <<>>
    /\ results = <<>>

\* input() returns raw
Reads(raw) ==
    /\ mode = "repl"
    /\ pc = "prompt"
    /\ Len(inputs) < MaxLines
    /\ inputs' = Append(inputs, raw)

\* input() raises EOFError or KeyboardInterrupt
ReplEof ==
    /\ mode = "repl"
    /\ pc = "prompt"
    /\ pc' = "exited"
    /\ UNCHANGED <<tables, mode, expr, outcome, history, inputs, results>>

ReplBlank(raw) ==
    /\ Reads(raw)
    /\ Strip(raw) = <<>>
    /\ UNCHANGED <<tables, mode, pc, expr, outcome, history, results>>

ReplQuit(raw) ==
    /\ Reads(raw)
    /\ Strip(raw) # <<>>
    /\ Lower(Strip(raw)) \in QuitWords
    /\ pc' = "exited"
    /\ UNCHANGED <<tables, mode, expr, outcome, history, results>>

ReplHelp(raw) ==
    /\ Reads(raw)
    /\ Strip(raw) # <<>>
    /\ Lower(Strip(raw)) \notin QuitWords
    /\ Lower(Strip(raw)) \in HelpWords
    /\ UNCHANGED <<tables, mode, pc, expr, outcome, history, results>>

ReplHistory(raw) ==
    /\ Reads(raw)
    /\ Strip(raw) # <<>>
    /\ Lower(Strip(raw)) \notin QuitWords \cup HelpWords
    /\ Lower(Strip(raw)) = HistoryWord
    /\ UNCHANGED <<tables, mode, pc, expr, outcome, history, results>>

\* the loop body with the last result kept under the name "ans"
ReplEvaluateKeepsAns(raw) ==
    LET s == Strip(raw) IN
    /\ Reads(raw)
    /\ s # <<>>
    /\ Lower(s) \notin QuitWords \cup HelpWords \cup {HistoryWord}
    /\ expr' = Parse(s)
    /\ outcome' = Evaluate(s)
    /\ results' = Append(results, [text |-> s, outcome |-> outcome'])
    /\ history' = IF outcome'.ok THEN Append(history, <<s, outcome'.val>>)
                  ELSE history
    /\ allowedNames' =
          IF outcome'.ok
          THEN [k \in DOMAIN allowedNames \cup {"ans"} |->
                   IF k = "ans" THEN outcome'.val ELSE allowedNames[k]]
          ELSE allowedNames
    /\ UNCHANGED <<allowedBinops, allowedUnaryops, mode, pc>>

\* result = evaluate(s); history.append((s, result)); except Exception
ReplEvaluate(raw) ==
    LET s == Strip(raw) IN
    /\ Reads(raw)
    /\ s # <<>>
    /\ Lower(s) \notin QuitWords \cup HelpWords \cup {HistoryWord}
    /\ expr' = Parse(s)
    /\ outcome' = Evaluate(s)
    /\ results' = Append(results, [text |-> s, outcome |-> outcome'])
    /\ history' = IF outcome'.ok THEN Append(history, <<s, outcome'.val>>)
                  ELSE history
    /\ UNCHANGED <<tables, mode, pc>>

NextRepl ==
    \/ ReplEof
    \/ \E raw \in Lines :
        \/ ReplBlank(raw)
        \/ ReplQuit(raw)
        \/ ReplHelp(raw)
        \/ ReplHistory(raw)
        \/ ReplEvaluate(raw)

SpecRepl == InitRepl /\ [][NextRepl]_vars

----------------------------------------------------------------------------
\* Properties

Root == expr.tree.body
Evaluated == mode = "cli" /\ pc # "start" /\ expr.ok

\* an attribute access, a subscription or a string literal at any depth
RECURSIVE HasForbidden(_)
HasForbidden(node) ==
    CASE node.kind \in {"Attribute", "Subscript"} -> TRUE
      [] node.kind = "Constant" -> node.value.t = "str"
      [] node.kind = "Expression" -> HasForbidden(node.body)
      [] node.kind = "BinOp" ->
            HasForbidden(node.left) \/ HasForbidden(node.right)
      [] node.kind = "UnaryOp" -> HasForbidden(node.operand)
      [] node.kind = "Call" ->
            \/ HasForbidden(node.func)
            \/ \E i \in 1..Len(node.args) : HasForbidden(node.args[i])
            \/ \E i \in 1..Len(node.keywords) : HasForbidden(node.keywords[i])
      [] node.kind \in {"Tuple", "List"} ->
            \E i \in 1..Len(node.elts) : HasForbidden(node.elts[i])
      [] OTHER -> FALSE

ForbiddenMessages ==
    {"Attribute access is not allowed", "Subscription is not allowed",
     "String literals are not allowed"}

Invoked(log, name) == \E i \in 1..Len(log) : log[i] = InvokeEvent(name)
SameError(a, b) == ~a.ok /\ ~b.ok /\ a.exc = b.exc /\ a.msg = b.msg

FunctionNames == MathFunctions \cup {"abs", "round"}

\* C2: evaluating a bare identifier that names a whitelisted function
\* fails, and every successful result of evaluating an identifier is a
\* number.
C2_BareFunctionNameFails ==
    Evaluated /\ Root.kind = "Name" =>
        /\ Root.id \in FunctionNames => ~outcome.ok
        /\ outcome.ok => outcome.val.t \in {"int", "float"}

DivisionOps == {"Div", "FloorDiv", "Mod"}

\* C3: a division, floor division or modulo whose operands evaluate to
\* numbers, the right one to zero, fails with the exception class that
\* evaluate documents for every evaluation error (ValueError).
C3_DivisionByZeroIsTypedError ==
    /\ Evaluated
    /\ ~HasForbidden(expr.tree)
    /\ Root.kind = "BinOp"
    /\ Root.op \in DivisionOps
    /\ SafeEval(Root.left).ok
    /\ IsNumber(SafeEval(Root.left).val)
    /\ SafeEval(Root.right).ok
    /\ IsNumber(SafeEval(Root.right).val)
    /\ IsZero(SafeEval(Root.right).val)
    => ~outcome.ok /\ outcome.exc = "ValueError"

\* a direct call of a whitelisted function without keyword arguments whose
\* arguments all evaluate
PlainCall ==
    /\ Evaluated
    /\ ~HasForbidden(expr.tree)
    /\ Root.kind = "Call"
    /\ Root.func.kind = "Name"
    /\ Root.func.id \in FunctionNames
    /\ Root.keywords = <<>>
    /\ EvalSeq(Root.args).ok

\* C4: a call of a whitelisted function with a number of arguments the
\* function does not accept fails with the arity error, a ValueError, and
\* the function is not invoked.
C4_ArityCheckedBeforeInvocation ==
    /\ PlainCall
    /\ Root.func.id # "factorial"
    /\ ~AcceptsCount(Root.func.id, Len(Root.args))
    => /\ ~outcome.ok
       /\ outcome.exc = "ValueError"
       /\ ~Invoked(outcome.log, Root.func.id)

IsNonNegInteger(v) == v.t \in {"int", "float"} /\ v.den = 1 /\ v.num >= 0

\* C5: a call of factorial whose arguments evaluate (none to a function
\* object) succeeds exactly when it has one argument that is a non-negative
\* integer or integral float, and then returns its factorial; in every
\* other case it fails with the factorial argument error and math.factorial
\* is not invoked.
C5_FactorialValidation ==
    /\ PlainCall
    /\ Root.func.id = "factorial"
    /\ \A i \in 1..Len(Root.args) : EvalSeq(Root.args).val.elts[i].t # "func"
    => LET args == EvalSeq(Root.args).val.elts IN
       IF Len(args) = 1 /\ IsNonNegInteger(args[1])
       THEN outcome.ok /\ outcome.val = IntVal(Fact(args[1].num))
       ELSE /\ ~outcome.ok
            /\ outcome.exc = "ValueError"
            /\ outcome.msg = "factorial() requires a single non-negative integer"
            /\ ~Invoked(outcome.log, "factorial")

\* C6: a call written with a keyword argument is rejected with the
\* keyword-argument error whatever the called name and the positional
\* arguments are, and the called function is not invoked.
C6_KeywordsAlwaysRejected ==
    /\ Evaluated
    /\ ~HasForbidden(expr.tree)
    /\ Root.kind = "Call"
    /\ Root.keywords # <<>>
    => /\ ~outcome.ok
       /\ outcome.exc = "ValueError"
       /\ outcome.msg = "Keyword arguments are not supported"
       /\ Root.func.kind = "Name" => ~Invoked(outcome.log, Root.func.id)

TablesAsBuilt == <<BinopsTable, UnaryopsTable, NamesTable>>

\* C7: across any sequence of evaluate calls the whitelist tables stay as
\* built, and two calls on the same text have the same outcome whatever
\* calls came between them.
C7_TablesFixedAndDeterministic ==
    /\ tables = TablesAsBuilt
    /\ \A i, j \in 1..Len(results) :
          results[i].text = results[j].text =>
              results[i].outcome = results[j].outcome

\* C7 case: a text evaluated, then a failing call, then the same text again
C7_Witness ==
    /\ Len(results) >= 3
    /\ results[1].text = results[3].text
    /\ results[1].outcome.ok
    /\ ~results[2].outcome.ok

SupportedBinOps == {"Add", "Sub", "Mult", "Div", "FloorDiv", "Mod", "Pow"}
BinOpEvaluated ==
    Evaluated /\ ~HasForbidden(expr.tree) /\ Root.kind = "BinOp"
OperatorError ==
    /\ ~outcome.ok
    /\ outcome.exc = "ValueError"
    /\ outcome.msg = "Binary operator is not allowed"

\* C8 as stated: operands first, operator lookup last.  When l fails the
\* result is l's error whatever r and op are; when l succeeds and r fails
\* it is r's error whatever op is; the operator error is reported only when
\* both operands evaluated.
C8_OperandsBeforeOperator ==
    BinOpEvaluated =>
        LET l == SafeEval(Root.left)
            r == SafeEval(Root.right)
        IN /\ ~l.ok => SameError(outcome, l)
           /\ l.ok /\ ~r.ok => SameError(outcome, r)
           /\ OperatorError => l.ok /\ r.ok

\* C8 amended: the operator is looked up first, then l is evaluated, then
\* r, then the operator is applied.  An operator outside the whitelist
\* gives the operator error whatever l and r are, and neither operand is
\* evaluated; otherwise a failing l gives l's error whatever r is, and a
\* failing r after a successful l gives r's error.
C8_OperatorBeforeOperands ==
    BinOpEvaluated =>
        LET l == SafeEval(Root.left)
            r == SafeEval(Root.right)
        IN IF Root.op \notin SupportedBinOps
           THEN OperatorError /\ Len(outcome.log) = 2
           ELSE /\ ~l.ok => SameError(outcome, l)
                /\ l.ok /\ ~r.ok => SameError(outcome, r)
                /\ l.ok /\ r.ok => ~OperatorError

\* C8 case: foo & 1, an unsupported operator over a failing left operand,
\* has been evaluated
C8_Witness ==
    /\ BinOpEvaluated
    /\ Root.op = "BitAnd"
    /\ Root.left = Name("foo")
    /\ OperatorError

\* C9: a Tuple node evaluates to the sequence of its elements' values in
\* order, and a unary or binary operation with an operand that evaluates
\* to a tuple fails.
C9_TuplesNotCombinable ==
    Evaluated /\ ~HasForbidden(expr.tree) =>
        /\ Root.kind = "Tuple" /\ outcome.ok =>
              /\ outcome.val.t = "tuple"
              /\ Len(outcome.val.elts) = Len(Root.elts)
              /\ \A i \in 1..Len(Root.elts) :
                    outcome.val.elts[i] = SafeEval(Root.elts[i]).val
        /\ Root.kind = "UnaryOp" /\ SafeEval(Root.operand).val.t = "tuple"
              => ~outcome.ok
        /\ /\ Root.kind = "BinOp"
           /\ \/ SafeEval(Root.left).val.t = "tuple"
              \/ SafeEval(Root.right).val.t = "tuple"
           => ~outcome.ok

\* the meta-command lines among the inputs, as typed
MetaTexts ==
    {<<"q">>, <<"Q">>, <<"q", "u", "i", "t">>, <<"E", "X", "I", "T">>, <<"h", "e", "l", "p">>, <<"?">>, <<"H", "i", "s", "t", "o", "r", "y">>}

\* the (text, result) pairs of the lines that are expressions and evaluate
RECURSIVE SuccessPairs(_)
SuccessPairs(ins) ==
    IF ins = <<>> THEN <<>>
    ELSE LET s == Strip(ins[Len(ins)])
             before == SuccessPairs(SubSeq(ins, 1, Len(ins) - 1))
         IN IF s = <<>> \/ s \in MetaTexts \/ ~Evaluate(s).ok THEN before
            ELSE Append(before, <<s, Evaluate(s).val>>)

\* C10: the history is the list of (text, result) pairs of the input lines
\* whose evaluation succeeded, in input order; blank lines, meta-commands
\* in any letter case and failed evaluations add nothing, and no
\* meta-command or blank line is handed to evaluate.
C10_HistoryIsSuccesses ==
    /\ history = SuccessPairs(inputs)
    /\ \A i \in 1..Len(results) : results[i].text \notin MetaTexts \cup {<<>>}

\* C10 case: a meta-command in capitals, a failed evaluation and a
\* successful one have all been read
C10_Witness ==
    /\ Len(history) >= 1
    /\ \E i \in 1..Len(inputs) : inputs[i] = <<"E", "X", "I", "T">> \/ inputs[i] = <<"H", "i", "s", "t", "o", "r", "y">>
    /\ \E i \in 1..Len(results) : ~results[i].outcome.ok

====
